---- MODULE Spec2Model ----
(***************************************************************************)
(* A model of cpp/src/thread_pool.cpp: the ThreadPool class (constructor,  *)
(* worker loop, enqueue, destructor), heavy_computation and the benchmark  *)
(* harness in main.                                                        *)
(*                                                                         *)
(* Threads: the constructing thread, num_threads workers, the submitting   *)
(* callers and the thread that destroys the pool.  Each step of a thread   *)
(* is one action; queue_mutex and the condition variable are explicit.     *)
(*                                                                         *)
(* Also modelled: the row split of the fork-join kernels                   *)
(* (matrix_multiply.cpp, mandelbrot.cpp, ray_tracer.cpp) and the           *)
(* activations and threads of parallel_quicksort.cpp.                      *)
(***************************************************************************)
EXTENDS Integers, Sequences, FiniteSets, TLC

(* ---------------------------- bounds ----------------------------------- *)
\* largest worker count a pool of the library specification is built with
MaxWorkers == 2
\* largest number of concurrent caller threads
MaxProducers == 2
\* largest number of enqueue calls one caller makes
MaxTasks == 2
\* largest number of enqueue calls all callers make together
MaxTotal == 4
\* largest NUM_THREADS of a fork-join kernel (8 in the sources)
MaxThreads == 3
\* largest row count of a fork-join kernel (SIZE 1024, HEIGHT 4096 and 1080 in the sources)
MaxRows == 11
\* the rows that the mains of mandelbrot and ray_tracer compute as warm-up
WARMUP_ROWS == 10
\* largest length of a vector given to parallel_quicksort (ARRAY_SIZE is 10'000'000)
MaxLen == 5
\* the elements of the vector are 0..MaxVal
MaxVal == 2
\* parallel_quicksort's THRESHOLD (10'000 in the source), scaled
THRESHOLD == 2
\* the harness's NUM_WORKERS (8 in the source), scaled
NUM_WORKERS == 2
\* the harness's NUM_TASKS (100'000 in the source), scaled
NUM_TASKS == 2
\* the warm-up loop's task count (100 in the source), scaled
WARMUP_TASKS == 2

(* ------------------------ program constants ---------------------------- *)
\* iterations of heavy_computation's loop
HEAVY_ITERS == 1000

VARIABLES
    num_threads,     \* the constructor's argument
    nProducers,      \* number of caller threads using the pool
    nTasks,          \* enqueue calls each caller makes
    body,            \* what the submitted closures do: "log", "throw", "heavy", "nest"
    phase,           \* "pool": a pool used by callers; "warmup"/"bench": main's two blocks
    spawned,         \* constructor: workers created so far (loop index i)
    stop,            \* ThreadPool::stop
    tasks,           \* ThreadPool::tasks, front first
    queue_mutex,     \* holder of ThreadPool::queue_mutex, or Free
    waiting,         \* workers blocked inside condition.wait
    wpc,             \* worker position
    wtask,           \* worker's local `task`
    ppc,             \* caller position inside enqueue
    pnext,           \* caller: index of its next enqueue call
    dpc,             \* destructor position
    joined,          \* destructor: workers joined so far
    joinlog,         \* observation: the workers joined, in the order of the joins
    enqueued,        \* observation: tasks in the order they were emplaced
    dequeued,        \* observation: tasks in the order they were popped
    executed,        \* observation: tasks in the order their bodies completed
    counter,         \* the shared atomic counter the task bodies add to
    counter_warmup,  \* main's warm-up accumulator
    late,            \* observation: an enqueue call overlapped or followed ~ThreadPool's start
    nested_late,     \* observation: a task body emplaced its task when stop was already set
    terminated,      \* std::terminate was called (an exception left a thread)
    failed,          \* the constructor was left by an exception: there is no pool
    ub,              \* the program has executed undefined behaviour
    kernel,          \* which program: "matrix" (matrix_multiply), "section" (mandelbrot, ray_tracer)
    call,            \* fork-join kernels: how many times main has entered the kernel
    mrow,            \* "section": loop variable of main's warm-up call (next row to write)
    rows,            \* fork-join kernels: the row count (SIZE or HEIGHT)
    nthr,            \* fork-join kernels: NUM_THREADS
    rpt,             \* fork-join kernels: rows_per_thread
    ranges,          \* fork-join kernels: <<start_row, end_row>> of each thread started
    trow,            \* fork-join kernels: each thread's loop variable (next row to write)
    written,         \* observation: how many times each output row has been written
    kwritten,        \* observation: the same, by the threads of the current kernel only
    fjoined,         \* fork-join kernels: threads joined so far
    fpc,             \* fork-join kernels: position of the spawning function
    qarr,            \* parallel_quicksort: the vector being sorted
    frames           \* parallel_quicksort: its activations, the top-level call first

cfgVars == <<num_threads, nProducers, nTasks, body, phase>>
poolVars == <<spawned, stop, tasks, queue_mutex, waiting, wpc, wtask>>
callVars == <<ppc, pnext>>
dtorVars == <<dpc, joined, joinlog>>
obsVars == <<enqueued, dequeued, executed, counter, counter_warmup, late, nested_late, terminated,
            failed, ub>>
fjVars == <<kernel, call, mrow, rows, nthr, rpt, ranges, trow, written, kwritten, fjoined, fpc>>
qsVars == <<qarr, frames>>
kernVars == <<fjVars, qsVars>>
vars == <<kernVars, cfgVars, poolVars, callVars, dtorVars, obsVars>>

(* ----------------------------- values ---------------------------------- *)
Free == <<"free", 0>>
WorkerId(w) == <<"worker", w>>
CallerId(p) == <<"caller", p>>
DtorId == <<"dtor", 0>>

\* the closure submitted by caller p in its i-th call captures i
Task(p, i) == <<p, i>>
\* a default-constructed std::function
NoTask == <<0, 0>>

\* the threads of the vector `workers`
Workers == 1..Len(wpc)
Producers == 1..nProducers

(* ------------------------ heavy_computation ---------------------------- *)
\* uint64_t arithmetic: the largest sum the harness can form,
\* 99'999 * 499'500 per task and below 2.5 * 10^15 in total, is far under
\* 2^64, so no reduction modulo 2^64 ever takes place.
\* heavy_loop(n, lo, hi) is the sum of n * i over the loop's iterations
\* lo..hi-1 (the source adds them one by one; the sum is split in halves to
\* keep the evaluation shallow)
RECURSIVE heavy_loop(_, _, _)
heavy_loop(n, lo, hi) ==
    IF hi <= lo THEN 0
    ELSE IF hi = lo + 1 THEN n * lo
    ELSE LET mid == (lo + hi) \div 2
         IN  heavy_loop(n, lo, mid) + heavy_loop(n, mid, hi)

heavy_computation(n) == heavy_loop(n, 0, HEAVY_ITERS)

(* ----------------------------- Init ------------------------------------ *)
\* the state shared by every construction: ThreadPool(num_threads) : stop(false),
\* no worker created yet, empty queue
PoolInit ==
    /\ spawned = 0
    /\ stop = FALSE
    /\ tasks = <<>>
    /\ queue_mutex = Free
    /\ waiting = {}
    /\ wpc = <<>>
    /\ wtask = <<>>
    /\ ppc = [p \in Producers |-> "out"]
    /\ pnext = [p \in Producers |-> 0]
    /\ dpc = "alive"
    /\ joined = 0
    /\ joinlog = <<>>
    /\ enqueued = <<>>
    /\ dequeued = <<>>
    /\ executed = <<>>
    /\ late = FALSE
    /\ nested_late = FALSE
    /\ terminated = FALSE
    /\ failed = FALSE
    /\ ub = FALSE

\* no fork-join kernel is running
RowsIdle ==
    /\ kernel = "none"
    /\ call = 0
    /\ mrow = 0
    /\ rows = 0
    /\ nthr = 0
    /\ rpt = 0
    /\ ranges = <<>>
    /\ trow = <<>>
    /\ written = <<>>
    /\ kwritten = <<>>
    /\ fjoined = 0
    /\ fpc = "none"

\* no sort is running
SortIdle ==
    /\ qarr = <<>>
    /\ frames = <<>>

KernelsIdle == RowsIdle /\ SortIdle

\* a pool used as a library: any worker count, callers and task count; the
\* closures either log and count, or are closures that can raise (submitted
\* by a single caller)
Init ==
    /\ num_threads \in 0..MaxWorkers
    /\ nProducers \in 1..MaxProducers
    /\ nTasks \in 0..MaxTasks
    /\ nProducers * nTasks <= MaxTotal
    /\ body \in IF nProducers = 1 THEN {"log", "throw"} ELSE {"log"}
    /\ phase = "pool"
    /\ counter = 0
    /\ counter_warmup = 0
    /\ PoolInit
    /\ KernelsIdle

\* main: counter(0), then the warm-up block's pool
InitMain ==
    /\ num_threads = NUM_WORKERS
    /\ nProducers = 1
    /\ nTasks = WARMUP_TASKS
    /\ body = "heavy"
    /\ phase = "warmup"
    /\ counter = 0
    /\ counter_warmup = 0
    /\ PoolInit
    /\ KernelsIdle

\* a pool whose tasks call enqueue on it: each task a caller submits has a
\* body that submits one further task (which only logs and counts)
InitNest ==
    /\ num_threads \in 0..MaxWorkers
    /\ nProducers = 1
    /\ nTasks \in 0..MaxTasks
    /\ body = "nest"
    /\ phase = "pool"
    /\ counter = 0
    /\ counter_warmup = 0
    /\ PoolInit
    /\ KernelsIdle

\* the process is running: std::terminate has not been called, no undefined behaviour
Running == ~terminated /\ ~ub

(* ------------------------- the constructor ----------------------------- *)
\* a loop that runs once too often
SpawnCondition_OffByOne == spawned <= num_threads

\* a constructor that starts one worker even when asked for none
SpawnCondition_AtLeastOne == spawned < num_threads \/ spawned = 0

\* the constructor's loop condition: i < num_threads
SpawnCondition == spawned < num_threads

\* a constructor that swallows the failure and hands out what it has built
Constructed_Partial == ~SpawnCondition \/ failed

\* the constructor has returned normally: the pool can be used
Constructed == ~SpawnCondition /\ ~failed

\* one iteration of the constructor's loop: workers.emplace_back creates a
\* thread, which starts its loop with its own empty `task`
Spawn ==
    /\ Running
    /\ ~failed
    /\ SpawnCondition
    /\ spawned' = spawned + 1
    /\ wpc' = Append(wpc, "lock")
    /\ wtask' = Append(wtask, NoTask)
    /\ UNCHANGED <<kernVars, cfgVars, stop, tasks, queue_mutex, waiting, callVars,
                   dtorVars, obsVars>>

\* one iteration of the constructor's loop in which the thread cannot be
\* started: std::thread's constructor throws std::system_error, which nothing
\* in ThreadPool's constructor catches. The members are destroyed in reverse
\* order. With no worker yet the exception reaches the code that constructs
\* the pool: a caller of the library has it in hand, while main, which
\* constructs its two pools outside any try block, is left by it and
\* std::terminate ends the process. With workers already running, the
\* condition variable and the mutex they use are destroyed under them
\* (undefined behaviour) and the destructor of a joinable std::thread calls
\* std::terminate.
SpawnFail ==
    /\ Running
    /\ ~failed
    /\ SpawnCondition
    /\ failed' = TRUE
    /\ IF spawned = 0
       THEN /\ terminated' = (phase # "pool")
            /\ ub' = ub
       ELSE \/ terminated' = TRUE /\ ub' = ub
            \/ ub' = TRUE /\ terminated' = terminated
    /\ UNCHANGED <<kernVars, cfgVars, poolVars, callVars, dtorVars, enqueued, dequeued, executed,
                   counter, counter_warmup, late, nested_late>>

(* --------------------------- the worker loop --------------------------- *)
\* std::unique_lock<std::mutex> lock(queue_mutex)
WorkerLock(w) ==
    /\ Running
    /\ wpc[w] = "lock"
    /\ queue_mutex = Free
    /\ queue_mutex' = WorkerId(w)
    /\ wpc' = [wpc EXCEPT ![w] = "wait"]
    /\ UNCHANGED <<kernVars, cfgVars, spawned, stop, tasks, waiting, wtask, callVars,
                   dtorVars, obsVars>>

\* a predicate that forgets the shutdown flag
WaitPredicate_NoStop == tasks # <<>>

\* the wait's predicate
WaitPredicate == stop \/ tasks # <<>>

\* condition.wait(lock, pred): while (!pred()) wait(lock); with the lock held,
\* either the predicate holds and the worker goes on, or the worker releases
\* the lock and blocks, atomically
WorkerWait(w) ==
    /\ Running
    /\ wpc[w] = "wait"
    /\ queue_mutex = WorkerId(w)
    /\ IF WaitPredicate
       THEN /\ wpc' = [wpc EXCEPT ![w] = "check"]
            /\ UNCHANGED <<queue_mutex, waiting>>
       ELSE /\ wpc' = [wpc EXCEPT ![w] = "blocked"]
            /\ queue_mutex' = Free
            /\ waiting' = waiting \cup {w}
    /\ UNCHANGED <<kernVars, cfgVars, spawned, stop, tasks, wtask, callVars, dtorVars, obsVars>>

\* a blocked worker may wake without any notification
SpuriousWake(w) ==
    /\ Running
    /\ w \in waiting
    /\ waiting' = waiting \ {w}
    /\ UNCHANGED <<kernVars, cfgVars, spawned, stop, tasks, queue_mutex, wpc, wtask, callVars,
                   dtorVars, obsVars>>

\* a wait written as a single `if`: a woken worker goes on without evaluating
\* the predicate again
WorkerWake_NoRecheck(w) ==
    /\ Running
    /\ wpc[w] = "blocked"
    /\ w \notin waiting
    /\ queue_mutex = Free
    /\ queue_mutex' = WorkerId(w)
    /\ wpc' = [wpc EXCEPT ![w] = "check"]
    /\ UNCHANGED <<kernVars, cfgVars, spawned, stop, tasks, waiting, wtask, callVars,
                   dtorVars, obsVars>>

\* a woken worker takes the lock again before wait re-evaluates the predicate
WorkerWake(w) ==
    /\ Running
    /\ wpc[w] = "blocked"
    /\ w \notin waiting
    /\ queue_mutex = Free
    /\ queue_mutex' = WorkerId(w)
    /\ wpc' = [wpc EXCEPT ![w] = "wait"]
    /\ UNCHANGED <<kernVars, cfgVars, spawned, stop, tasks, waiting, wtask, callVars,
                   dtorVars, obsVars>>

\* a worker that leaves as soon as it sees the flag, without draining
ExitCondition_NoDrain == stop

\* a worker that takes an empty queue alone for the signal to leave
ExitCondition_Or == stop \/ tasks = <<>>

\* the condition under which the worker leaves its loop
ExitCondition == stop /\ tasks = <<>>

\* if (stop && tasks.empty()) return;  the lock is released by its destructor
WorkerExit(w) ==
    /\ Running
    /\ wpc[w] = "check"
    /\ queue_mutex = WorkerId(w)
    /\ ExitCondition
    /\ wpc' = [wpc EXCEPT ![w] = "done"]
    /\ queue_mutex' = Free
    /\ UNCHANGED <<kernVars, cfgVars, spawned, stop, tasks, waiting, wtask, callVars,
                   dtorVars, obsVars>>

\* a worker that reads the newest element of the queue
Front_Back(q) == q[Len(q)]

\* std::queue::front: the oldest element
Front(q) == Head(q)

\* a pop that leaves the element in the queue
Pop_Keep(q) == q

\* std::queue::pop: the oldest element is removed
Pop(q) == Tail(q)

\* a lock whose scope extends over the call of the task
LockScopeEnd_AfterTask(w) == WorkerId(w)

\* the owner of the mutex after the closing brace of the scope of the worker's
\* unique_lock, which comes before task()
LockScopeEnd(w) == Free

\* task = std::move(tasks.front()); tasks.pop(); and the end of the lock's scope.
\* front() and pop() on an empty queue are undefined behaviour.
WorkerDequeue(w) ==
    /\ Running
    /\ wpc[w] = "check"
    /\ queue_mutex = WorkerId(w)
    /\ ~ExitCondition
    /\ IF tasks = <<>>
       THEN /\ ub' = TRUE
            /\ UNCHANGED <<tasks, wtask, dequeued>>
       ELSE /\ wtask' = [wtask EXCEPT ![w] = Front(tasks)]
            /\ tasks' = Pop(tasks)
            /\ dequeued' = Append(dequeued, Front(tasks))
            /\ ub' = ub
    /\ wpc' = [wpc EXCEPT ![w] = "run"]
    /\ queue_mutex' = LockScopeEnd(w)
    /\ UNCHANGED <<kernVars, cfgVars, spawned, stop, waiting, callVars, dtorVars, enqueued,
                   executed, counter, counter_warmup, late, nested_late, terminated, failed>>

\* what a task's body adds to the accumulator it captured
Amount(t) == IF body = "heavy" THEN heavy_computation(t[2]) ELSE 1

\* warm-up closures that capture the benchmark's counter
Captured_Shared == "counter"

\* the accumulator the closures of the current block capture by reference
Captured == IF phase = "warmup" THEN "counter_warmup" ELSE "counter"

\* a `task` declared outside the loop, which keeps the callable it ran
NextIterationTask_Hoisted(t) == t

\* std::function<void()> task; is declared inside the loop: the iteration
\* that ran t ends by destroying it and the next one starts with an empty one
NextIterationTask(t) == NoTask

\* the task that the body of a caller's task t submits
Child(t) == <<0 - t[1], t[2]>>

\* the body of t contains a call of enqueue on the pool that runs it
CallsEnqueue(t) == body = "nest" /\ t[1] > 0

\* worker w is at the end of the body of its task
BodyDone(w) ==
    \/ wpc[w] = "run" /\ ~CallsEnqueue(wtask[w])
    \/ wpc[w] = "rest"

\* a worker that leaves after a task when it finds stop set, without looking
\* at the queue again
TaskReturns_ExitsOnStop(w) ==
    /\ Running
    /\ BodyDone(w)
    /\ executed' = Append(executed, wtask[w])
    /\ IF Captured = "counter_warmup"
       THEN /\ counter_warmup' = counter_warmup + Amount(wtask[w])
            /\ counter' = counter
       ELSE /\ counter' = counter + Amount(wtask[w])
            /\ counter_warmup' = counter_warmup
    /\ wpc' = [wpc EXCEPT ![w] = IF stop THEN "done" ELSE "lock"]
    /\ wtask' = [wtask EXCEPT ![w] = NextIterationTask(wtask[w])]
    /\ UNCHANGED <<kernVars, cfgVars, spawned, stop, tasks, queue_mutex, waiting, callVars,
                   dtorVars, enqueued, dequeued, late, nested_late, terminated, failed, ub>>

\* task(): the body runs to its end; its effect is one atomic addition
\* (counter += result) and, for the logging bodies, the append to the log.
\* The worker then starts the next iteration with a fresh `task`.
TaskReturns(w) ==
    /\ Running
    /\ BodyDone(w)
    /\ executed' = Append(executed, wtask[w])
    /\ IF Captured = "counter_warmup"
       THEN /\ counter_warmup' = counter_warmup + Amount(wtask[w])
            /\ counter' = counter
       ELSE /\ counter' = counter + Amount(wtask[w])
            /\ counter_warmup' = counter_warmup
    /\ wpc' = [wpc EXCEPT ![w] = "lock"]
    /\ wtask' = [wtask EXCEPT ![w] = NextIterationTask(wtask[w])]
    /\ UNCHANGED <<kernVars, cfgVars, spawned, stop, tasks, queue_mutex, waiting, callVars,
                   dtorVars, enqueued, dequeued, late, nested_late, terminated, failed, ub>>

\* task(): the body raises. Nothing in the worker's function catches, so the
\* exception leaves the thread's function and std::terminate ends the process.
TaskThrows(w) ==
    /\ Running
    /\ wpc[w] = "run"
    /\ body = "throw"
    /\ terminated' = TRUE
    /\ wpc' = [wpc EXCEPT ![w] = "dead"]
    /\ UNCHANGED <<kernVars, cfgVars, spawned, stop, tasks, queue_mutex, waiting, wtask,
                   callVars, dtorVars, enqueued, dequeued, executed, counter,
                   counter_warmup, late, nested_late, failed, ub>>

(* ------------------------------ enqueue -------------------------------- *)
\* an emplace at the wrong end of the queue
Emplace_Front(q, t) == <<t>> \o q

\* an emplace that overwrites what is queued
Emplace_Replace(q, t) == <<t>>

\* std::queue::emplace: the new element goes to the back
Emplace(q, t) == Append(q, t)

\* an enqueue that forgets to signal the condition variable
NotifyOne_None(ws) == {ws}

\* the outcomes of notify_one on the set ws of blocked threads: one of them,
\* if there is any, is unblocked
NotifyOne(ws) == IF ws = {} THEN {ws} ELSE {ws \ {w} : w \in ws}

\* a destructor that wakes a single worker
NotifyAll_One(ws) == NotifyOne(ws)

\* the outcomes of notify_all: every blocked thread is unblocked
NotifyAll(ws) == {{}}

\* the caller's loop has a call left to make
HasCall(p) == ppc[p] = "out" /\ pnext[p] < nTasks

\* enqueue is entered: std::unique_lock<std::mutex> lock(queue_mutex).
\* A call on a pool whose destructor has returned uses a destroyed object.
EnqueueLock(p) ==
    /\ Running
    /\ Constructed
    /\ HasCall(p)
    /\ IF dpc = "returned"
       THEN /\ ub' = TRUE
            /\ UNCHANGED <<queue_mutex, ppc>>
       ELSE /\ queue_mutex = Free
            /\ queue_mutex' = CallerId(p)
            /\ ppc' = [ppc EXCEPT ![p] = "emplace"]
            /\ ub' = ub
    /\ late' = (late \/ dpc # "alive")
    /\ UNCHANGED <<kernVars, cfgVars, spawned, stop, tasks, waiting, wpc, wtask, pnext,
                   dtorVars, enqueued, dequeued, executed, counter, counter_warmup,
                   nested_late, terminated, failed>>

\* an enqueue that puts the pool back in service
EnqueueEmplace_Reopens(p) ==
    /\ Running
    /\ ppc[p] = "emplace"
    /\ queue_mutex = CallerId(p)
    /\ tasks' = Emplace(tasks, Task(p, pnext[p]))
    /\ enqueued' = Append(enqueued, Task(p, pnext[p]))
    /\ stop' = FALSE
    /\ queue_mutex' = Free
    /\ ppc' = [ppc EXCEPT ![p] = "notify"]
    /\ UNCHANGED <<kernVars, cfgVars, spawned, waiting, wpc, wtask, pnext, dtorVars,
                   dequeued, executed, counter, counter_warmup, late, nested_late, terminated,
                   failed, ub>>

\* tasks.emplace(std::forward<F>(f)); and the end of the lock's scope
EnqueueEmplace(p) ==
    /\ Running
    /\ ppc[p] = "emplace"
    /\ queue_mutex = CallerId(p)
    /\ tasks' = Emplace(tasks, Task(p, pnext[p]))
    /\ enqueued' = Append(enqueued, Task(p, pnext[p]))
    /\ queue_mutex' = Free
    /\ ppc' = [ppc EXCEPT ![p] = "notify"]
    /\ UNCHANGED <<kernVars, cfgVars, spawned, stop, waiting, wpc, wtask, pnext, dtorVars,
                   dequeued, executed, counter, counter_warmup, late, nested_late, terminated,
                   failed, ub>>

\* an enqueue that hands its task over: it returns only once a worker is
\* there to be woken
EnqueueNotify_Handoff(p) ==
    /\ Running
    /\ ppc[p] = "notify"
    /\ waiting # {}
    /\ waiting' \in NotifyOne(waiting)
    /\ ppc' = [ppc EXCEPT ![p] = "out"]
    /\ pnext' = [pnext EXCEPT ![p] = pnext[p] + 1]
    /\ UNCHANGED <<kernVars, cfgVars, spawned, stop, tasks, queue_mutex, wpc, wtask, dtorVars, obsVars>>

\* condition.notify_one(): one blocked worker, if there is any, is woken;
\* then enqueue returns
EnqueueNotify(p) ==
    /\ Running
    /\ ppc[p] = "notify"
    /\ waiting' \in NotifyOne(waiting)
    /\ ppc' = [ppc EXCEPT ![p] = "out"]
    /\ pnext' = [pnext EXCEPT ![p] = pnext[p] + 1]
    /\ UNCHANGED <<kernVars, cfgVars, spawned, stop, tasks, queue_mutex, wpc, wtask, dtorVars, obsVars>>

(* ------------------- enqueue called from a task body ------------------- *)
\* the body of the task that worker w runs enters enqueue:
\* std::unique_lock<std::mutex> lock(queue_mutex), on the worker's thread
NestLock(w) ==
    /\ Running
    /\ wpc[w] = "run"
    /\ CallsEnqueue(wtask[w])
    /\ queue_mutex = Free
    /\ queue_mutex' = WorkerId(w)
    /\ wpc' = [wpc EXCEPT ![w] = "nemplace"]
    /\ UNCHANGED <<kernVars, cfgVars, spawned, stop, tasks, waiting, wtask, callVars,
                   dtorVars, obsVars>>

\* tasks.emplace(std::forward<F>(f)); and the end of the lock's scope
NestEmplace(w) ==
    /\ Running
    /\ wpc[w] = "nemplace"
    /\ queue_mutex = WorkerId(w)
    /\ tasks' = Emplace(tasks, Child(wtask[w]))
    /\ enqueued' = Append(enqueued, Child(wtask[w]))
    /\ queue_mutex' = Free
    /\ wpc' = [wpc EXCEPT ![w] = "nnotify"]
    /\ nested_late' = (nested_late \/ stop)
    /\ UNCHANGED <<kernVars, cfgVars, spawned, stop, waiting, wtask, callVars, dtorVars,
                   dequeued, executed, counter, counter_warmup, late, terminated,
                   failed, ub>>

\* condition.notify_one(); then enqueue returns into the body
NestNotify(w) ==
    /\ Running
    /\ wpc[w] = "nnotify"
    /\ waiting' \in NotifyOne(waiting)
    /\ wpc' = [wpc EXCEPT ![w] = "rest"]
    /\ UNCHANGED <<kernVars, cfgVars, spawned, stop, tasks, queue_mutex, wtask, callVars,
                   dtorVars, obsVars>>

(* ---------------------------- the destructor --------------------------- *)
\* every caller has made all its calls and is out of enqueue
CallersDone == \A p \in Producers : ppc[p] = "out" /\ pnext[p] = nTasks

\* ~ThreadPool is entered: std::unique_lock<std::mutex> lock(queue_mutex).
\* A pool used by callers is destroyed by its owner at any time after its
\* construction; in main the pool's scope ends after the submission loop.
DtorLock ==
    /\ Running
    /\ Constructed
    /\ dpc = "alive"
    /\ phase = "pool" \/ CallersDone
    /\ queue_mutex = Free
    /\ queue_mutex' = DtorId
    /\ dpc' = "stop"
    /\ late' = (late \/ \E p \in Producers : ppc[p] # "out")
    /\ UNCHANGED <<kernVars, cfgVars, spawned, stop, tasks, waiting, wpc, wtask, callVars, joined,
                   joinlog, enqueued, dequeued, executed, counter, counter_warmup,
                   nested_late, terminated, failed, ub>>

\* stop = true; and the end of the lock's scope
DtorSetStop ==
    /\ Running
    /\ dpc = "stop"
    /\ queue_mutex = DtorId
    /\ stop' = TRUE
    /\ queue_mutex' = Free
    /\ dpc' = "notify"
    /\ UNCHANGED <<kernVars, cfgVars, spawned, tasks, waiting, wpc, wtask, callVars, joined,
                   joinlog, obsVars>>

\* condition.notify_all(): every blocked worker is woken
DtorNotifyAll ==
    /\ Running
    /\ dpc = "notify"
    /\ waiting' \in NotifyAll(waiting)
    /\ dpc' = "join"
    /\ UNCHANGED <<kernVars, cfgVars, spawned, stop, tasks, queue_mutex, wpc, wtask, callVars,
                   joined, joinlog, obsVars>>

\* a destructor that does not wait for its threads
Joinable_Detached(w) == TRUE

\* std::thread::join returns once the thread's function has returned
Joinable(w) == wpc[w] = "done"

\* worker.join() for the next worker of the vector
DtorJoin ==
    /\ Running
    /\ dpc = "join"
    /\ joined < Len(wpc)
    /\ Joinable(joined + 1)
    /\ joined' = joined + 1
    /\ joinlog' = Append(joinlog, joined + 1)
    /\ UNCHANGED <<kernVars, cfgVars, poolVars, callVars, dpc, obsVars>>

\* the join loop is over: the destructor returns and the members are destroyed.
\* A caller still inside enqueue is then using a destroyed mutex or condition
\* variable.
DtorReturn ==
    /\ Running
    /\ dpc = "join"
    /\ joined = Len(wpc)
    /\ dpc' = "returned"
    /\ ub' = (ub \/ \E p \in Producers : ppc[p] # "out")
    /\ UNCHANGED <<kernVars, cfgVars, poolVars, callVars, joined, joinlog, enqueued, dequeued,
                   executed, counter, counter_warmup, late, nested_late, terminated, failed>>

(* -------------------------------- main --------------------------------- *)
\* the warm-up block has ended (its pool and counter_warmup are gone); the
\* benchmark block constructs its own pool and submits NUM_TASKS tasks to it
MainBenchmark ==
    /\ Running
    /\ phase = "warmup"
    /\ dpc = "returned"
    /\ phase' = "bench"
    /\ nTasks' = NUM_TASKS
    /\ spawned' = 0
    /\ stop' = FALSE
    /\ tasks' = <<>>
    /\ queue_mutex' = Free
    /\ waiting' = {}
    /\ wpc' = <<>>
    /\ wtask' = <<>>
    /\ ppc' = [p \in Producers |-> "out"]
    /\ pnext' = [p \in Producers |-> 0]
    /\ dpc' = "alive"
    /\ joined' = 0
    /\ joinlog' = <<>>
    /\ enqueued' = <<>>
    /\ dequeued' = <<>>
    /\ executed' = <<>>
    /\ UNCHANGED <<kernVars, num_threads, nProducers, body, counter, counter_warmup, late, nested_late,
                   terminated, failed, ub>>

(* --------------------------- specifications ---------------------------- *)
Next ==
    \/ Spawn
    \/ SpawnFail
    \/ \E w \in Workers : WorkerLock(w)
    \/ \E w \in Workers : WorkerWait(w)
    \/ \E w \in Workers : SpuriousWake(w)
    \/ \E w \in Workers : WorkerWake(w)
    \/ \E w \in Workers : WorkerExit(w)
    \/ \E w \in Workers : WorkerDequeue(w)
    \/ \E w \in Workers : TaskReturns(w)
    \/ \E w \in Workers : TaskThrows(w)
    \/ \E p \in Producers : EnqueueLock(p)
    \/ \E p \in Producers : EnqueueEmplace(p)
    \/ \E p \in Producers : EnqueueNotify(p)
    \/ DtorLock
    \/ DtorSetStop
    \/ DtorNotifyAll
    \/ DtorJoin
    \/ DtorReturn

Spec == Init /\ [][Next]_vars

\* main's tasks never raise
NextMain ==
    \/ Spawn
    \/ SpawnFail
    \/ \E w \in Workers : WorkerLock(w)
    \/ \E w \in Workers : WorkerWait(w)
    \/ \E w \in Workers : SpuriousWake(w)
    \/ \E w \in Workers : WorkerWake(w)
    \/ \E w \in Workers : WorkerExit(w)
    \/ \E w \in Workers : WorkerDequeue(w)
    \/ \E w \in Workers : TaskReturns(w)
    \/ \E p \in Producers : EnqueueLock(p)
    \/ \E p \in Producers : EnqueueEmplace(p)
    \/ \E p \in Producers : EnqueueNotify(p)
    \/ DtorLock
    \/ DtorSetStop
    \/ DtorNotifyAll
    \/ DtorJoin
    \/ DtorReturn
    \/ MainBenchmark

SpecMain == InitMain /\ [][NextMain]_vars

\* a pool whose tasks submit tasks; none of them raises
NextNest ==
    \/ Spawn
    \/ SpawnFail
    \/ \E w \in Workers : WorkerLock(w)
    \/ \E w \in Workers : WorkerWait(w)
    \/ \E w \in Workers : SpuriousWake(w)
    \/ \E w \in Workers : WorkerWake(w)
    \/ \E w \in Workers : WorkerExit(w)
    \/ \E w \in Workers : WorkerDequeue(w)
    \/ \E w \in Workers : NestLock(w)
    \/ \E w \in Workers : NestEmplace(w)
    \/ \E w \in Workers : NestNotify(w)
    \/ \E w \in Workers : TaskReturns(w)
    \/ \E p \in Producers : EnqueueLock(p)
    \/ \E p \in Producers : EnqueueEmplace(p)
    \/ \E p \in Producers : EnqueueNotify(p)
    \/ DtorLock
    \/ DtorSetStop
    \/ DtorNotifyAll
    \/ DtorJoin
    \/ DtorReturn

SpecNest == InitNest /\ [][NextNest]_vars

(* ------------------------------ fairness ------------------------------- *)
\* the steps of worker w; a wake-up without notification is not one of them:
\* nothing promises it
WorkerStep(w) ==
    /\ w \in Workers
    /\ \/ WorkerLock(w)
       \/ WorkerWait(w)
       \/ WorkerWake(w)
       \/ WorkerExit(w)
       \/ WorkerDequeue(w)
       \/ TaskReturns(w)
       \/ TaskThrows(w)

\* the steps of caller p once it is inside enqueue (no caller has to call)
CallerStep(p) ==
    /\ p \in Producers
    /\ \/ EnqueueEmplace(p)
       \/ EnqueueNotify(p)

\* the steps of the destructor once it has been entered (no owner has to
\* destroy its pool)
DtorStep == DtorSetStop \/ DtorNotifyAll \/ DtorJoin \/ DtorReturn

\* every thread that can take a step is scheduled eventually
Fairness ==
    /\ WF_vars(Spawn)
    /\ \A w \in 1..MaxWorkers : WF_vars(WorkerStep(w))
    /\ \A p \in 1..MaxProducers : WF_vars(CallerStep(p))
    /\ WF_vars(DtorStep)

FairSpec == Init /\ [][Next]_vars /\ Fairness

\* the steps of worker w when the body of its task calls enqueue
WorkerStepNest(w) ==
    /\ w \in Workers
    /\ \/ WorkerLock(w)
       \/ WorkerWait(w)
       \/ WorkerWake(w)
       \/ WorkerExit(w)
       \/ WorkerDequeue(w)
       \/ NestLock(w)
       \/ NestEmplace(w)
       \/ NestNotify(w)
       \/ TaskReturns(w)

\* as Fairness: a thread that can take a step for ever takes one. Nothing
\* more is promised for lock(): a task body that waits for the mutex may be
\* overtaken again and again by workers that wake without notification
FairnessNest ==
    /\ WF_vars(Spawn)
    /\ \A w \in 1..MaxWorkers : WF_vars(WorkerStepNest(w))
    /\ \A p \in 1..MaxProducers : WF_vars(CallerStep(p))
    /\ WF_vars(DtorStep)

FairSpecNest == InitNest /\ [][NextNest]_vars /\ FairnessNest

(* ------------------------- the fork-join kernels ----------------------- *)
\* matrix_multiply_parallel, and the benchmark blocks of mandelbrot.cpp and
\* ray_tracer.cpp, split the rows of the output among NUM_THREADS threads
\* with the same code; rows is SIZE or HEIGHT. Before the kernel whose time
\* is taken, matrix_multiply's main runs the kernel once on the same result,
\* and the mains of mandelbrot and ray_tracer compute the first WARMUP_ROWS
\* rows of the same output on the main thread.

\* no pool is in use
PoolIdle ==
    /\ num_threads = 0
    /\ nProducers = 1
    /\ nTasks = 0
    /\ body = "log"
    /\ phase = "none"
    /\ counter = 0
    /\ counter_warmup = 0
    /\ PoolInit

\* main has built the output, of which nothing has been written: it is about
\* to enter the kernel ("matrix") or its warm-up call ("section")
InitRows ==
    /\ PoolIdle
    /\ SortIdle
    /\ kernel \in {"matrix", "section"}
    /\ call = 0
    /\ mrow = 0
    /\ rows \in 0..MaxRows
    /\ nthr \in 1..MaxThreads
    /\ rpt = 0
    /\ ranges = <<>>
    /\ trow = <<>>
    /\ written = [r \in 1..rows |-> 0]
    /\ kwritten = [r \in 1..rows |-> 0]
    /\ fjoined = 0
    /\ fpc = IF kernel = "section" THEN "warmup" ELSE "enter"

\* the number of times main runs the kernel
KernelCalls == IF kernel = "matrix" THEN 2 ELSE 1

\* compute_section(result, 0, 10) / render_section(spheres, image, 0, 10) on
\* the main thread: one iteration of its row loop. A row outside the output
\* is an access out of bounds.
WarmupRow ==
    /\ Running
    /\ fpc = "warmup"
    /\ mrow < WARMUP_ROWS
    /\ IF mrow < rows
       THEN /\ written' = [written EXCEPT ![mrow + 1] = @ + 1]
            /\ ub' = ub
       ELSE /\ written' = written
            /\ ub' = TRUE
    /\ mrow' = mrow + 1
    /\ UNCHANGED <<kernel, call, rows, nthr, rpt, ranges, trow, kwritten, fjoined, fpc,
                   qsVars, cfgVars, poolVars, callVars, dtorVars, enqueued, dequeued,
                   executed, counter, counter_warmup, late, nested_late, terminated, failed>>

\* the kernel is entered (after the warm-up call has returned, or for the
\* first or the second time in matrix_multiply's main): an empty vector of
\* threads, rows_per_thread = rows / NUM_THREADS
KernelEnter ==
    /\ Running
    /\ \/ fpc = "enter"
       \/ fpc = "warmup" /\ ~(mrow < WARMUP_ROWS)
    /\ fpc' = "run"
    /\ call' = call + 1
    /\ rpt' = rows \div nthr
    /\ ranges' = <<>>
    /\ trow' = <<>>
    /\ fjoined' = 0
    /\ kwritten' = [r \in 1..rows |-> 0]
    /\ UNCHANGED <<kernel, mrow, rows, nthr, written, qsVars, cfgVars, poolVars,
                   callVars, dtorVars, obsVars>>

\* size_t start_row = t * rows_per_thread
StartRow(t) == t * rpt

\* a split that forgets the remainder of the division
EndRow_NoRemainder(t) == (t + 1) * rpt

\* size_t end_row = (t == NUM_THREADS - 1) ? rows : (t + 1) * rows_per_thread
EndRow(t) == IF t = nthr - 1 THEN rows ELSE (t + 1) * rpt

\* one iteration of the spawning loop: thread t gets [start_row, end_row)
FjSpawn ==
    /\ Running
    /\ fpc = "run"
    /\ Len(ranges) < nthr
    /\ ranges' = Append(ranges, <<StartRow(Len(ranges)), EndRow(Len(ranges))>>)
    /\ trow' = Append(trow, StartRow(Len(ranges)))
    /\ UNCHANGED <<kernel, call, mrow, rows, nthr, rpt, written, kwritten, fjoined, fpc,
                   qsVars, cfgVars, poolVars, callVars, dtorVars, obsVars>>

\* one iteration of the spawning loop in which the thread cannot be started:
\* std::system_error leaves emplace_back; nothing catches it, and the vector
\* of joinable threads is destroyed: std::terminate
FjSpawnFail ==
    /\ Running
    /\ fpc = "run"
    /\ Len(ranges) < nthr
    /\ terminated' = TRUE
    /\ UNCHANGED <<kernVars, cfgVars, poolVars, callVars, dtorVars, enqueued, dequeued,
                   executed, counter, counter_warmup, late, nested_late, failed, ub>>

\* one iteration of the row loop of thread k (for i = start_row; i < end_row):
\* every element of output row i is written. A row outside the output is an
\* access out of bounds.
FjRow(k) ==
    /\ Running
    /\ fpc = "run"
    /\ trow[k] < ranges[k][2]
    /\ IF trow[k] < rows
       THEN /\ written' = [written EXCEPT ![trow[k] + 1] = @ + 1]
            /\ kwritten' = [kwritten EXCEPT ![trow[k] + 1] = @ + 1]
            /\ ub' = ub
       ELSE /\ written' = written
            /\ kwritten' = kwritten
            /\ ub' = TRUE
    /\ trow' = [trow EXCEPT ![k] = @ + 1]
    /\ UNCHANGED <<kernel, call, mrow, rows, nthr, rpt, ranges, fjoined, fpc, qsVars,
                   cfgVars, poolVars, callVars, dtorVars, enqueued, dequeued, executed,
                   counter, counter_warmup, late, nested_late, terminated, failed>>

\* the function of thread k has returned
FjFinished(k) == trow[k] >= ranges[k][2]

\* thread.join() for the next thread of the vector, after the spawning loop
FjJoin ==
    /\ Running
    /\ fpc = "run"
    /\ Len(ranges) = nthr
    /\ fjoined < nthr
    /\ FjFinished(fjoined + 1)
    /\ fjoined' = fjoined + 1
    /\ UNCHANGED <<kernel, call, mrow, rows, nthr, rpt, ranges, trow, written, kwritten,
                   fpc, qsVars, cfgVars, poolVars, callVars, dtorVars, obsVars>>

\* the join loop is over: back in main, which enters the kernel again if it
\* has a call left
FjReturn ==
    /\ Running
    /\ fpc = "run"
    /\ Len(ranges) = nthr
    /\ fjoined = nthr
    /\ fpc' = IF call < KernelCalls THEN "enter" ELSE "done"
    /\ UNCHANGED <<kernel, call, mrow, rows, nthr, rpt, ranges, trow, written, kwritten,
                   fjoined, qsVars, cfgVars, poolVars, callVars, dtorVars, obsVars>>

NextRows ==
    \/ WarmupRow
    \/ KernelEnter
    \/ FjSpawn
    \/ FjSpawnFail
    \/ \E k \in 1..Len(ranges) : FjRow(k)
    \/ FjJoin
    \/ FjReturn

SpecRows == InitRows /\ [][NextRows]_vars

(* -------------------------- parallel_quicksort -------------------------- *)
\* arr[i], for a 0-based index
At(a, i) == a[i + 1]

\* std::swap(arr[i], arr[j])
Swap(a, i, j) == [a EXCEPT ![i + 1] = a[j + 1], ![j + 1] = a[i + 1]]

\* the loop of partition from j on: <<the vector, i>> at its end
RECURSIVE partition_loop(_, _, _, _, _)
partition_loop(a, j, i, high, pivot) ==
    IF j < high
    THEN IF At(a, j) <= pivot
         THEN partition_loop(Swap(a, i, j), j + 1, i + 1, high, pivot)
         ELSE partition_loop(a, j + 1, i, high, pivot)
    ELSE <<a, i>>

\* partition(arr, low, high): <<the vector afterwards, the index returned>>
partition(a, low, high) ==
    LET r == partition_loop(a, low, low, high, At(a, high))
    IN  <<Swap(r[1], r[2], high), r[2]>>

\* x put at its place in the ascending sequence q
RECURSIVE Insert(_, _)
Insert(x, q) ==
    IF q = <<>> \/ x <= Head(q)
    THEN <<x>> \o q
    ELSE <<Head(q)>> \o Insert(x, Tail(q))

\* the elements of q in ascending order
RECURSIVE Ascending(_)
Ascending(q) == IF q = <<>> THEN q ELSE Insert(Head(q), Ascending(Tail(q)))

\* std::sort(arr.begin() + low, arr.begin() + high + 1)
SortRange(a, low, high) ==
    SubSeq(a, 1, low) \o Ascending(SubSeq(a, low + 1, high + 1))
        \o SubSeq(a, high + 2, Len(a))

\* an activation of parallel_quicksort(arr, low, high): thr tells whether it
\* is the function of a std::thread, par is the activation that made it
NewFrame(low, high, par, thr) ==
    [low |-> low, high |-> high, pc |-> "enter", part |-> FALSE, pi |-> 0, pv |-> 0,
     left |-> 0, par |-> par, thr |-> thr]

\* main has generated the vector and calls parallel_quicksort(v, 0, v.size() - 1)
InitSort ==
    /\ PoolIdle
    /\ RowsIdle
    /\ \E n \in 1..MaxLen : qarr \in [1..n -> 0..MaxVal]
    /\ frames = <<NewFrame(0, Len(qarr) - 1, 0, FALSE)>>

\* the frames after activation f has returned: a caller on the same thread
\* goes on after its call
Return(fs, f) ==
    [g \in 1..Len(fs) |->
        IF g = f THEN [fs[g] EXCEPT !.pc = "returned"]
        ELSE IF g = fs[f].par /\ ~fs[f].thr THEN [fs[g] EXCEPT !.pc = "after"]
        ELSE fs[g]]

\* if (low < high) is false: nothing to do
QsSkip(f) ==
    /\ Running
    /\ frames[f].pc = "enter"
    /\ ~(frames[f].low < frames[f].high)
    /\ frames' = Return(frames, f)
    /\ UNCHANGED <<qarr, fjVars, cfgVars, poolVars, callVars, dtorVars, obsVars>>

\* len <= THRESHOLD: std::sort on the range, return
QsSort(f) ==
    /\ Running
    /\ frames[f].pc = "enter"
    /\ frames[f].low < frames[f].high
    /\ frames[f].high - frames[f].low + 1 <= THRESHOLD
    /\ qarr' = SortRange(qarr, frames[f].low, frames[f].high)
    /\ frames' = Return(frames, f)
    /\ UNCHANGED <<fjVars, cfgVars, poolVars, callVars, dtorVars, obsVars>>

\* size_t pi = partition(arr, low, high)
QsPartition(f) ==
    /\ Running
    /\ frames[f].pc = "enter"
    /\ frames[f].low < frames[f].high
    /\ ~(frames[f].high - frames[f].low + 1 <= THRESHOLD)
    /\ LET r == partition(qarr, frames[f].low, frames[f].high)
       IN  /\ qarr' = r[1]
           /\ frames' = [frames EXCEPT ![f] = [@ EXCEPT !.pc = "split", !.part = TRUE,
                                                        !.pi = r[2], !.pv = At(r[1], r[2])]]
    /\ UNCHANGED <<fjVars, cfgVars, poolVars, callVars, dtorVars, obsVars>>

\* if (pi > 0)
LeftGuard(pi) == pi > 0

\* std::thread left_thread(parallel_quicksort, std::ref(arr), low, pi - 1)
QsSpawnLeft(f) ==
    /\ Running
    /\ frames[f].pc = "split"
    /\ LeftGuard(frames[f].pi)
    /\ frames' = Append([frames EXCEPT ![f] = [@ EXCEPT !.pc = "right",
                                                       !.left = Len(frames) + 1]],
                        NewFrame(frames[f].low, frames[f].pi - 1, f, TRUE))
    /\ UNCHANGED <<qarr, fjVars, cfgVars, poolVars, callVars, dtorVars, obsVars>>

\* the thread cannot be started: std::system_error leaves the activation;
\* nothing catches it, on any thread: std::terminate
QsSpawnFail(f) ==
    /\ Running
    /\ frames[f].pc = "split"
    /\ LeftGuard(frames[f].pi)
    /\ terminated' = TRUE
    /\ UNCHANGED <<kernVars, cfgVars, poolVars, callVars, dtorVars, enqueued, dequeued,
                   executed, counter, counter_warmup, late, nested_late, failed, ub>>

\* the else branch of if (pi > 0): no left thread
QsNoLeft(f) ==
    /\ Running
    /\ frames[f].pc = "split"
    /\ ~LeftGuard(frames[f].pi)
    /\ frames' = [frames EXCEPT ![f] = [@ EXCEPT !.pc = "right"]]
    /\ UNCHANGED <<qarr, fjVars, cfgVars, poolVars, callVars, dtorVars, obsVars>>

\* if (pi + 1 <= high) parallel_quicksort(arr, pi + 1, high), on this thread
QsCallRight(f) ==
    /\ Running
    /\ frames[f].pc = "right"
    /\ frames[f].pi + 1 <= frames[f].high
    /\ frames' = Append([frames EXCEPT ![f] = [@ EXCEPT !.pc = "incall"]],
                        NewFrame(frames[f].pi + 1, frames[f].high, f, FALSE))
    /\ UNCHANGED <<qarr, fjVars, cfgVars, poolVars, callVars, dtorVars, obsVars>>

\* pi + 1 <= high is false: no right half
QsNoRight(f) ==
    /\ Running
    /\ frames[f].pc = "right"
    /\ ~(frames[f].pi + 1 <= frames[f].high)
    /\ frames' = [frames EXCEPT ![f] = [@ EXCEPT !.pc = "after"]]
    /\ UNCHANGED <<qarr, fjVars, cfgVars, poolVars, callVars, dtorVars, obsVars>>

\* a join that does not wait
QsJoinable_Detached(g) == TRUE

\* std::thread::join returns once the function of the thread has returned
QsJoinable(g) == frames[g].pc = "returned"

\* left_thread.join(); and the activation returns
QsJoin(f) ==
    /\ Running
    /\ frames[f].pc = "after"
    /\ frames[f].left # 0
    /\ QsJoinable(frames[f].left)
    /\ frames' = Return(frames, f)
    /\ UNCHANGED <<qarr, fjVars, cfgVars, poolVars, callVars, dtorVars, obsVars>>

\* the end of the else branch: the activation returns
QsReturn(f) ==
    /\ Running
    /\ frames[f].pc = "after"
    /\ frames[f].left = 0
    /\ frames' = Return(frames, f)
    /\ UNCHANGED <<qarr, fjVars, cfgVars, poolVars, callVars, dtorVars, obsVars>>

NextSort ==
    \/ \E f \in 1..Len(frames) : QsSkip(f)
    \/ \E f \in 1..Len(frames) : QsSort(f)
    \/ \E f \in 1..Len(frames) : QsPartition(f)
    \/ \E f \in 1..Len(frames) : QsSpawnLeft(f)
    \/ \E f \in 1..Len(frames) : QsSpawnFail(f)
    \/ \E f \in 1..Len(frames) : QsNoLeft(f)
    \/ \E f \in 1..Len(frames) : QsCallRight(f)
    \/ \E f \in 1..Len(frames) : QsNoRight(f)
    \/ \E f \in 1..Len(frames) : QsJoin(f)
    \/ \E f \in 1..Len(frames) : QsReturn(f)

SpecSort == InitSort /\ [][NextSort]_vars

(* ------------------------------- claims -------------------------------- *)
\* the number of times task t has been executed to its end
Runs(t) == Cardinality({j \in 1..Len(executed) : executed[j] = t})

\* every worker's function has returned
AllTerminated == \A w \in Workers : wpc[w] = "done"

\* s lists the single caller's tasks in submission order, from the first on
InOrder(s) == \A j \in 1..Len(s) : s[j] = Task(1, j - 1)

\* C1: with at least one worker and a single caller whose N enqueue calls have
\* all returned before the destructor is entered, at the destructor's return
\* each of the N tasks has been executed exactly once, nothing else has been
\* executed, and no task is still held or running.
C1_ExactlyOnce ==
    (dpc = "returned" /\ num_threads >= 1 /\ nProducers = 1 /\ ~late) =>
        /\ \A i \in 0..(pnext[1] - 1) : Runs(Task(1, i)) = 1
        /\ Len(executed) = pnext[1]
        /\ \A w \in Workers : wpc[w] # "run" /\ wtask[w] = NoTask

C1_Witness ==
    /\ dpc = "returned" /\ ~late /\ nProducers = 1
    /\ num_threads = MaxWorkers
    /\ pnext[1] = MaxTasks
    /\ Len(executed) = MaxTasks

\* C2: with one worker and one caller, tasks are popped and executed in the
\* order of their enqueue calls; after shutdown the log is [0, 1, ..., N-1].
C2_Fifo ==
    (num_threads = 1 /\ nProducers = 1) =>
        /\ InOrder(dequeued)
        /\ InOrder(executed)
        /\ (dpc = "returned" /\ ~late) => Len(executed) = pnext[1]

C2_Witness ==
    /\ num_threads = 1 /\ nProducers = 1
    /\ dpc = "returned" /\ ~late
    /\ executed = [j \in 1..MaxTasks |-> Task(1, j - 1)]

\* C3: when each of the P callers has completed its K enqueue calls before
\* the destructor is entered, at the destructor's return the counter that each
\* task increments once reads P * K and every task has been executed exactly
\* once, whatever the interleaving.
C3_AllCounted ==
    (dpc = "returned" /\ num_threads >= 1 /\ CallersDone /\ ~late /\ body = "log") =>
        /\ counter = nProducers * nTasks
        /\ \A p \in Producers : \A i \in 0..(nTasks - 1) : Runs(Task(p, i)) = 1

C3_Witness ==
    /\ dpc = "returned" /\ ~late /\ CallersDone
    /\ nProducers = MaxProducers /\ nTasks = MaxTasks /\ num_threads = MaxWorkers
    /\ counter = MaxProducers * MaxTasks
    /\ \E j \in 1..(Len(dequeued) - 1) : dequeued[j][1] # dequeued[j + 1][1]

\* C4: once the destructor has set stop and issued notify_all, and provided
\* no task body raises and every thread is scheduled fairly, the destructor
\* eventually returns with every worker terminated and none left blocked.
C4_ShutdownTerminates ==
    (dpc = "join" /\ body # "throw")
        ~> (dpc = "returned" /\ AllTerminated /\ waiting = {})

C4_Witness ==
    /\ dpc = "returned" /\ AllTerminated /\ body # "throw"
    /\ num_threads = MaxWorkers
    /\ Len(executed) >= 2

\* C5 (as claimed): when the destructor of a pool with at least one worker
\* returns (in an execution without undefined behaviour), every worker has
\* terminated and the task queue is empty.
C5_DrainedAtReturn ==
    (dpc = "returned" /\ num_threads >= 1 /\ ~ub) => (AllTerminated /\ tasks = <<>>)

\* C6: if no task is ever submitted, a destructor that has been entered
\* returns, under fair scheduling, with every worker terminated and no task
\* executed: the workers blocked in the wait and those that had not reached it
\* all see stop with an empty queue.
C6_IdleShutdown ==
    (nTasks = 0 /\ dpc # "alive")
        ~> (dpc = "returned" /\ AllTerminated /\ dequeued = <<>> /\ executed = <<>>)

\* stop has just been set with one worker blocked in the wait and another
\* that has not reached it
C6_Witness ==
    /\ nTasks = 0 /\ stop /\ dpc = "notify"
    /\ \E w \in Workers : wpc[w] = "blocked" /\ w \in waiting
    /\ \E w \in Workers : wpc[w] = "lock"

\* C7 (as claimed): an enqueue made while stop is true is rejected: it does
\* not place its task in the queue.
C7_RejectedAfterStop ==
    [][\A p \in Producers :
          (stop /\ ppc[p] = "emplace" /\ ppc'[p] # "emplace") => tasks' = tasks]_vars

\* C8 (as claimed): a task that raises does not take its worker down: the
\* worker stays alive and the process goes on.
C8_FailureContained ==
    ~terminated /\ \A w \in Workers : wpc[w] # "dead"

\* the sum of heavy_computation(i) over i in [0, n)
RECURSIVE SumHeavy(_)
SumHeavy(n) == IF n = 0 THEN 0 ELSE SumHeavy(n - 1) + heavy_computation(n - 1)

\* C9: in main, the counter read after the benchmark block equals the sum of
\* heavy_computation(i) over i in [0, NUM_TASKS), whatever the interleaving
\* and whatever the warm-up pool's tasks added to their own accumulator.
C9_ExactSum ==
    (phase = "bench" /\ dpc = "returned") => counter = SumHeavy(NUM_TASKS)

C9_Witness ==
    /\ phase = "bench" /\ dpc = "returned"
    /\ counter = SumHeavy(NUM_TASKS)
    /\ counter > 0
    /\ counter_warmup = SumHeavy(WARMUP_TASKS)
    /\ counter_warmup > 0
    /\ executed # dequeued

\* C10: enqueue never waits for a worker or for room in the queue: a caller
\* with a call to make enters as soon as queue_mutex is free, and once inside
\* it can always take its next step, whatever the workers are doing and
\* however long the queue is.
C10_EnqueueNeverWaits ==
    \A p \in Producers :
        /\ (Running /\ Constructed /\ HasCall(p) /\ queue_mutex = Free)
               => ENABLED EnqueueLock(p)
        /\ (Running /\ ppc[p] = "emplace") => ENABLED EnqueueEmplace(p)
        /\ (Running /\ ppc[p] = "notify") => ENABLED EnqueueNotify(p)

\* a call has returned while its task is still queued behind busy workers
C10_Witness ==
    /\ num_threads = MaxWorkers
    /\ \A w \in Workers : wpc[w] = "run"
    /\ \E p \in Producers :
          /\ ppc[p] = "out" /\ pnext[p] >= 1
          /\ \E j \in 1..Len(tasks) : tasks[j] = Task(p, pnext[p] - 1)
    /\ Len(tasks) >= 2

\* C11: the constructor creates exactly num_threads workers, one per loop
\* iteration; once it has returned the vector of workers neither grows nor
\* shrinks; and the destructor joins the workers one by one, each exactly
\* once: when it returns it has joined workers 1..num_threads, in this order.
C11_FixedWorkers ==
    /\ [](/\ Len(wpc) = spawned
          /\ Len(wpc) <= num_threads
          /\ (Constructed \/ dpc # "alive") => Len(wpc) = num_threads
          /\ joinlog = [j \in 1..joined |-> j]
          /\ dpc = "returned" => joinlog = [j \in 1..num_threads |-> j])
    /\ [][(Constructed \/ dpc # "alive") => Len(wpc') = Len(wpc)]_vars

C11_Witness ==
    /\ dpc = "returned"
    /\ num_threads = MaxWorkers
    /\ Len(wpc) = MaxWorkers
    /\ joinlog = [j \in 1..MaxWorkers |-> j]

\* C12: a pool with fewer than num_threads workers, whether still under
\* construction or left behind by a failed thread start, is never handed to
\* a caller: it accepts no enqueue call and its destructor is never entered.
C12_NoPartialPool ==
    (failed \/ Len(wpc) < num_threads) =>
        /\ tasks = <<>> /\ enqueued = <<>>
        /\ \A p \in Producers : ppc[p] = "out" /\ pnext[p] = 0
        /\ dpc = "alive"

\* the second thread start has failed while the first worker was already
\* blocked in its wait
C12_Witness ==
    /\ failed
    /\ num_threads = 2 /\ Len(wpc) = 1
    /\ wpc[1] = "blocked"
    /\ terminated

\* C13: a worker leaves its loop only from a state in which it holds the
\* lock, stop is true and the queue is empty; a worker that is past the wait
\* with stop true and the queue not empty takes the front task, and the body
\* of the task it took is run.
C13_ExitOnlyWhenDrained ==
    [][\A w \in DOMAIN wpc \cap DOMAIN wpc' :
          /\ (wpc[w] # "done" /\ wpc'[w] = "done") =>
                 /\ wpc[w] = "check"
                 /\ queue_mutex = WorkerId(w)
                 /\ stop
                 /\ tasks = <<>>
          /\ (wpc[w] = "check" /\ stop /\ tasks # <<>> /\ wpc'[w] # "check") =>
                 /\ wpc'[w] = "run"
                 /\ wtask'[w] = Head(tasks)
                 /\ tasks' = Tail(tasks)
          /\ (wpc[w] = "run" /\ wpc'[w] # "run") =>
                 \/ wpc'[w] = "lock" /\ executed' = Append(executed, wtask[w])
                 \/ wpc'[w] = "dead" /\ body = "throw"]_vars

\* a worker is past the wait with stop set and a task still queued, in a run
\* where no enqueue came late
C13_Witness ==
    /\ stop /\ ~late
    /\ tasks # <<>>
    /\ \E w \in Workers : wpc[w] = "check" /\ queue_mutex = WorkerId(w)

\* C14: a worker that is past the condition wait holds the lock and sees
\* stop set or a task in the queue, whatever woke it; and no worker ever
\* performs front()/pop() on an empty queue.
C14_PredicateRechecked ==
    /\ [](\A w \in Workers :
             wpc[w] = "check" =>
                 /\ queue_mutex = WorkerId(w)
                 /\ stop \/ tasks # <<>>)
    /\ [][\A w \in DOMAIN wpc \cap DOMAIN wpc' :
             (wpc[w] = "check" /\ wpc'[w] = "run") =>
                 /\ tasks # <<>>
                 /\ ub' = ub]_vars

\* one worker is past the wait with the only task of the queue while another
\* worker has been woken and has not yet evaluated the predicate again
C14_Witness ==
    /\ ~stop
    /\ Len(tasks) = 1
    /\ \E w1, w2 \in Workers :
          /\ w1 # w2
          /\ wpc[w1] = "check"
          /\ wpc[w2] = "blocked" /\ w2 \notin waiting

\* C15: no lost wake-up. With at least one worker, fair scheduling and task
\* bodies that return, a task whose enqueue call has returned on a pool whose
\* destructor has not been entered is eventually executed, whether or not the
\* destructor is ever entered afterwards (the only other outcome is the
\* undefined behaviour of a later call on a destroyed pool).
C15_NoLostWakeup ==
    \A p \in 1..MaxProducers : \A i \in 0..(MaxTasks - 1) :
        (/\ p \in Producers
         /\ pnext[p] > i
         /\ dpc = "alive"
         /\ num_threads >= 1
         /\ body # "throw")
            ~> (Runs(Task(p, i)) = 1 \/ ub)

\* the destructor has not been entered, every task has been executed, and
\* every worker is asleep again in the wait
C15_Witness ==
    /\ dpc = "alive" /\ CallersDone
    /\ num_threads = MaxWorkers /\ nProducers = MaxProducers /\ nTasks = MaxTasks
    /\ Len(executed) = MaxProducers * MaxTasks
    /\ \A w \in Workers : wpc[w] = "blocked" /\ w \in waiting

\* C16: a worker that is executing a task body, or is anywhere else outside
\* its critical section, does not hold queue_mutex: the mutex is held by a
\* worker only between its lock (or wake-up) and the end of the lock's scope,
\* so a running task keeps no other worker from dequeuing and no caller from
\* enqueuing.
C16_RunsUnlocked ==
    \A w \in Workers :
        /\ wpc[w] \in {"run", "dead", "lock", "blocked", "done"} => queue_mutex # WorkerId(w)
        /\ queue_mutex = WorkerId(w) => wpc[w] \in {"wait", "check"}

\* both workers are executing task bodies while a caller holds the lock for
\* its append
C16_Witness ==
    /\ num_threads = 2
    /\ \A w \in Workers : wpc[w] = "run"
    /\ \E p \in Producers : ppc[p] = "emplace" /\ queue_mutex = CallerId(p)

\* C17: for any number of workers and callers, each task placed in the queue
\* is taken by at most one worker and is never both taken and still queued:
\* the tasks taken so far are pairwise distinct, no two workers hold the same
\* task, and every task placed in the queue is either in it or taken once.
C17_TakenOnce ==
    /\ \A j, k \in 1..Len(dequeued) : j # k => dequeued[j] # dequeued[k]
    /\ \A w1, w2 \in Workers :
          (w1 # w2 /\ wtask[w1] # NoTask) => wtask[w1] # wtask[w2]
    /\ \A j \in 1..Len(enqueued) :
          Cardinality({k \in 1..Len(dequeued) : dequeued[k] = enqueued[j]})
            + Cardinality({k \in 1..Len(tasks) : tasks[k] = enqueued[j]}) = 1

\* two workers hold different tasks of two callers at the same time
C17_Witness ==
    /\ nProducers = 2 /\ Len(wpc) = 2
    /\ wpc[1] = "run" /\ wpc[2] = "run"
    /\ wtask[1] # wtask[2]
    /\ wtask[1][1] # wtask[2][1]

\* C18: for any number of workers, tasks leave the queue in the order of
\* their appends: the tasks taken so far, in the order they were taken,
\* followed by the queue, are the appends so far in their order.
C18_FifoDequeue ==
    dequeued \o tasks = enqueued

\* with two workers and two callers, three tasks have been taken in the order
\* of their appends, the second one has completed before the first, and a
\* fourth is still queued
C18_Witness ==
    /\ num_threads = 2 /\ nProducers = 2
    /\ Len(dequeued) = 3 /\ Len(tasks) = 1
    /\ Len(executed) >= 1 /\ executed[1] = dequeued[2]
    /\ dequeued[1][1] # dequeued[2][1]

\* C19: the stop flag of a pool is false from its construction until the
\* destructor's assignment, true from then on, and no step of any thread
\* changes it from true to false.
C19_StopMonotonic ==
    /\ [](stop <=> dpc \in {"notify", "join", "returned"})
    /\ [][stop => stop']_vars

\* stop is set and, after that, a caller has been through enqueue's critical
\* section and a worker through a task
C19_Witness ==
    /\ stop /\ late
    /\ \E p \in Producers : ppc[p] = "notify"
    /\ \E w \in Workers : wpc[w] = "run"

\* C20: each worker is idle (taking the lock, in the wait, or at the exit
\* check), executing, or terminated. It owns a task exactly while it is
\* executing, and the tasks taken and not yet finished are one per executing
\* worker. From executing it only goes back to idle, having finished its
\* task; it takes a task only when idle and owning none; it terminates only
\* from idle, owning no task, and never leaves the terminated state. (A body
\* that raises ends the whole process, which is no transition of the worker.)
C20_WorkerStateMachine ==
    /\ [](/\ \A w \in Workers : wtask[w] # NoTask <=> wpc[w] \in {"run", "dead"}
          /\ Len(dequeued) = Len(executed)
                + Cardinality({w \in Workers : wpc[w] \in {"run", "dead"}}))
    /\ [][\A w \in DOMAIN wpc \cap DOMAIN wpc' :
             /\ wpc[w] = "run" =>
                    \/ wpc'[w] = "run" /\ wtask'[w] = wtask[w]
                    \/ wpc'[w] = "lock" /\ executed' = Append(executed, wtask[w])
                    \/ wpc'[w] = "dead" /\ terminated'
             /\ (wtask'[w] # wtask[w] /\ wtask'[w] # NoTask) =>
                    wpc[w] = "check" /\ wtask[w] = NoTask /\ wpc'[w] = "run"
             /\ (wpc[w] # "done" /\ wpc'[w] = "done") =>
                    wpc[w] = "check" /\ wtask[w] = NoTask
             /\ wpc[w] = "done" => wpc'[w] = "done"]_vars

\* after stop, one worker has terminated while the other, which has already
\* finished one task, is executing the next
C20_Witness ==
    /\ stop
    /\ Len(executed) >= 1
    /\ \E w1, w2 \in Workers :
          /\ wpc[w1] = "done" /\ wtask[w1] = NoTask
          /\ wpc[w2] = "run" /\ wtask[w2] # NoTask
          /\ \E j \in 1..Len(executed) : executed[j][1] = wtask[w2][1]

\* C21: the append of an enqueue call puts exactly the call's task at the
\* back of the queue: the length grows by one and the tasks already queued
\* keep their content and order; no step of an enqueue call (lock, append,
\* notify) changes anything else of the queue, the stop flag or the workers.
C21_EnqueueFrame ==
    [][\A p \in Producers :
          /\ (ppc[p] = "emplace" /\ ppc'[p] = "notify") =>
                 /\ Len(tasks') = Len(tasks) + 1
                 /\ SubSeq(tasks', 1, Len(tasks)) = tasks
                 /\ tasks'[Len(tasks')] = Task(p, pnext[p])
          /\ (ppc'[p] # ppc[p] /\ ~(ppc[p] = "emplace" /\ ppc'[p] = "notify")) =>
                 tasks' = tasks
          /\ ppc'[p] # ppc[p] =>
                 /\ stop' = stop
                 /\ spawned' = spawned
                 /\ Len(wpc') = Len(wpc)
                 /\ dequeued' = dequeued /\ executed' = executed]_vars

\* a call has appended its task behind two tasks that were already queued
C21_Witness ==
    /\ Len(tasks) = 3
    /\ \E p \in Producers : ppc[p] = "notify" /\ tasks[3] = Task(p, pnext[p])
    /\ num_threads = MaxWorkers

\* C22: a task whose body calls enqueue on its own pool does not deadlock:
\* while the body is about to lock, the mutex is not held by the worker that
\* runs it (the lock's scope closed before task() was called); when it is
\* free the body can take it, and whoever holds it releases it (no thread
\* waits for anything while it holds it). Once the body has the mutex, it runs to
\* its end and the task it submitted is executed too. And when the
\* destructor returns, every task submitted by a running task, before or
\* after stop was set, has been executed exactly once and none is left in
\* the queue.
C22_NestedEnqueue ==
    /\ [](dpc = "returned" =>
             \A j \in 1..Len(enqueued) :
                 enqueued[j][1] < 0 =>
                     /\ Runs(enqueued[j]) = 1
                     /\ \A k \in 1..Len(tasks) : tasks[k] # enqueued[j])
    /\ [](\A w \in Workers :
             (Running /\ wpc[w] = "run" /\ CallsEnqueue(wtask[w])) =>
                 /\ queue_mutex # WorkerId(w)
                 /\ queue_mutex = Free => ENABLED NestLock(w))
    /\ (Running /\ queue_mutex # Free) ~> (queue_mutex = Free \/ ~Running)
    /\ \A w \in 1..MaxWorkers : \A i \in 0..(MaxTasks - 1) :
          (w \in Workers /\ wpc[w] = "nemplace" /\ wtask[w] = Task(1, i))
              ~> (Runs(Task(1, i)) = 1 /\ Runs(Child(Task(1, i))) = 1)

\* the destructor has returned; no caller's call came late, but a task body
\* emplaced its task when stop was already set, and every task, submitted
\* by the caller or by a body, was executed by one of the two workers
C22_Witness ==
    /\ dpc = "returned"
    /\ nested_late
    /\ ~late
    /\ num_threads = 2
    /\ nTasks = MaxTasks
    /\ joinlog = <<1, 2>>
    /\ Len(executed) = 2 * MaxTasks
    /\ \A i \in 0..(MaxTasks - 1) : Runs(Child(Task(1, i))) = 1

\* C23: a pool built with num_threads = 0 is constructed (no thread is
\* started, nothing fails) and takes enqueue calls like any other; nothing
\* is ever taken from its queue or executed, so the queue is at all times
\* the sequence of the tasks submitted; and its destructor, once entered,
\* returns, with those tasks still queued.
C23_ZeroWorkers ==
    /\ [](num_threads = 0 =>
             /\ spawned = 0 /\ Len(wpc) = 0 /\ ~failed /\ ~terminated
             /\ tasks = enqueued
             /\ dequeued = <<>> /\ executed = <<>> /\ counter = 0)
    /\ (num_threads = 0 /\ dpc = "stop") ~> (dpc = "returned" /\ tasks = enqueued)

\* the destructor of a pool without workers has returned after every call of
\* two callers had returned, and every task is still queued
C23_Witness ==
    /\ num_threads = 0
    /\ dpc = "returned" /\ ~late /\ ~ub
    /\ CallersDone /\ nProducers = MaxProducers /\ nTasks = MaxTasks
    /\ Len(tasks) = MaxProducers * MaxTasks
    /\ executed = <<>>

\* the program's kernel code is running or has run
InKernel == fpc \in {"run", "enter", "done"} /\ call >= 1

\* C24: in the fork-join kernels the ranges [start_row, end_row) handed out
\* are within [0, rows), pairwise disjoint, and once all NUM_THREADS threads
\* are started every row is in exactly one of them, whether or not rows is a
\* multiple of NUM_THREADS; no row is written by two threads of a kernel
\* (nor twice by one), and when the join loop is over every row has been
\* written by a thread of that kernel.
C24_RowPartition ==
    /\ \A k \in 1..Len(ranges) :
          /\ 0 <= ranges[k][1] /\ ranges[k][1] <= ranges[k][2] /\ ranges[k][2] <= rows
          /\ \A j \in 1..(k - 1) : ranges[j][2] <= ranges[k][1]
    /\ (InKernel /\ Len(ranges) = nthr) =>
          \A r \in 0..(rows - 1) :
              Cardinality({k \in 1..nthr : ranges[k][1] <= r /\ r < ranges[k][2]}) = 1
    /\ \A r \in 1..Len(kwritten) : kwritten[r] <= 1
    /\ (InKernel /\ fjoined = nthr) => \A r \in 1..rows : kwritten[r] = 1

\* mandelbrot or ray_tracer: the join loop is over for a row count that is
\* not a multiple of the number of threads; the last thread took the
\* remainder, and the rows of the warm-up have been written a second time
C24_Witness ==
    /\ kernel = "section"
    /\ fpc = "done"
    /\ nthr = MaxThreads
    /\ rows = MaxRows
    /\ rows % nthr # 0
    /\ ranges[nthr][2] - ranges[nthr][1] > rpt
    /\ written[1] = 2 /\ written[rows] = 1

\* the indices low..high of activation g
QsRange(g) == frames[g].low .. frames[g].high

\* C25: in parallel_quicksort the left thread gets [low, pi - 1] and the
\* right recursion [pi + 1, high] of their parent's range: the two are
\* disjoint and neither holds pi, so activations that have yet to touch the
\* vector have disjoint ranges and a pivot stays in its slot; a left thread
\* exists only for pi > 0 (pi - 1 is not computed for pi = 0) and no bound is
\* ever negative; and an activation that has returned has no activation it
\* made, thread or call, still running, so none runs once the top-level call
\* has returned.
C25_QuicksortRanges ==
    /\ \A g \in 1..Len(frames) :
          /\ frames[g].low >= 0 /\ frames[g].high >= 0
          /\ frames[g].high <= Len(qarr) - 1
          /\ frames[g].part => At(qarr, frames[g].pi) = frames[g].pv
          /\ frames[g].par # 0 =>
                LET f == frames[g].par
                IN  /\ frames[f].part
                    /\ frames[g].thr =>
                          /\ frames[f].pi > 0
                          /\ frames[f].left = g
                          /\ frames[g].low = frames[f].low
                          /\ frames[g].high = frames[f].pi - 1
                    /\ ~frames[g].thr =>
                          /\ frames[g].low = frames[f].pi + 1
                          /\ frames[g].high = frames[f].high
                    /\ frames[f].pi \notin QsRange(g)
                    /\ QsRange(g) \subseteq QsRange(f)
                    /\ frames[f].pc = "returned" => frames[g].pc = "returned"
          /\ \A h \in 1..Len(frames) :
                /\ (g # h /\ frames[g].par = frames[h].par) =>
                      QsRange(g) \cap QsRange(h) = {}
                /\ (g # h /\ frames[g].pc = "enter" /\ frames[h].pc = "enter") =>
                      QsRange(g) \cap QsRange(h) = {}
                /\ (frames[g].pc = "enter" /\ frames[h].part) =>
                      frames[h].pi \notin QsRange(g)
    /\ (frames # <<>> /\ frames[1].pc = "returned") =>
          \A g \in 1..Len(frames) : frames[g].pc = "returned"

\* the top-level call has returned after a partition with pi = 0, for which
\* no thread was started, and two left threads, one started by the other
C25_Witness ==
    /\ frames # <<>>
    /\ frames[1].pc = "returned"
    /\ \E f \in 1..Len(frames) : frames[f].part /\ frames[f].pi = 0 /\ frames[f].left = 0
    /\ \E g, h \in 1..Len(frames) :
          /\ frames[g].thr /\ frames[h].thr
          /\ frames[h].par = g

====
